---- MODULE Spec2Model ----
(***************************************************************************)
(* Adaptive-subdivision fetch engine of ass01/scripts: the Police API      *)
(* fetch (utils_police.py) with its JSON file cache and its 2x2 grid       *)
(* subdivision on HTTP 503, and the Overpass fetch (utils_osm.py) with its *)
(* endpoint failover.                                                      *)
(***************************************************************************)
EXTENDS Integers, Sequences, FiniteSets, TLC

VARIABLES run, cache, stack, pc, req, result, prev, log, budget, sweep

vars == <<run, cache, stack, pc, req, result, prev, log, budget, sweep>>

(***************************************************************************)
(* Program constants and bounds                                            *)
(***************************************************************************)
MAX_GRID_DEPTH == 2

\* The endpoint answers 200 at most MaxSuccess times in one behaviour over a
\* borough with an empty or a non-polygon clip, and at most MaxSuccessFull
\* times in a behaviour over the borough whose subdivision tree is full (21
\* cells).
MaxSuccess == 1

MaxSuccessFull == 1

\* The endpoint answers 200 at most MaxSuccessSweep times during one sweep of
\* fetch_all_crimes.
MaxSuccessSweep == 1

suffixes == <<"NW", "NE", "SW", "SE">>

(***************************************************************************)
(* Crime records as the API returns them.  A field the payload lacks (or   *)
(* holds as null) is "", which is what c.get(...) or ... makes of it.      *)
(***************************************************************************)
Crime(id, street, month, lat) ==
    [id |-> id, street |-> street, month |-> month, lat |-> lat]

crimeA == Crime("c1", "s1", "2025-01", "51.50")
crimeB == Crime("", "s1", "2025-01", "51.51")
crimeC == Crime("", "s1", "2025-01", "51.52")

\* The bodies a 200 response may carry.
Payloads == { <<>>, <<crimeA>>, <<crimeA, crimeB, crimeC>> }

(***************************************************************************)
(* Geometry.  A geometry is a borough boundary clipped to a cell of the    *)
(* subdivision tree; what the code reads of it is whether it is empty and  *)
(* whether it is a Polygon (only a Polygon has an exterior ring).  The     *)
(* quadrants are the closed quarters of the bounding box of the geometry,  *)
(* so a connected polygon misses at most one of them.                      *)
(*   Square: every clip is a Polygon.                                      *)
(*   Ell:    two thin arms along the west and south sides; the NE quadrant *)
(*           is missed, the SW clip is an Ell again, the NW and SE clips   *)
(*           are rectangles.                                               *)
(*   Comb:   an arm along the west side with two fingers reaching east     *)
(*           below the middle; the NE quadrant is missed and the SE clip   *)
(*           is the two finger ends, a MultiPolygon.                       *)
(***************************************************************************)
Last(s) == s[Len(s)]

ClipKind(shape, cell) ==
    IF cell = <<>> THEN "Polygon"
    ELSE CASE shape = "Square" -> "Polygon"
           [] shape = "Ell"    -> IF \E k \in 1..Len(cell) :
                                        /\ cell[k] = "NE"
                                        /\ \A j \in 1..(k - 1) : cell[j] = "SW"
                                  THEN "Empty"
                                  ELSE "Polygon"
           [] shape = "Comb"   -> IF cell[1] = "NE" THEN "Empty"
                                  ELSE IF cell[1] = "SE" THEN "Multi"
                                  ELSE "Polygon"

Geom(shape, cell) == [shape |-> shape, cell |-> cell, kind |-> ClipKind(shape, cell)]

\* geom.intersection(quad) for the quadrant named suffix
intersection(geom, suffix) == Geom(geom.shape, Append(geom.cell, suffix))

is_empty(geom) == geom.kind = "Empty"

\* geom.exterior exists for a Polygon only (_simplify_to_n_points reads it)
has_exterior(geom) == geom.kind = "Polygon"

(***************************************************************************)
(* Boroughs.  A name is the sequence of its characters; a row of the       *)
(* boundary file is a name with its geometry.                              *)
(***************************************************************************)
Camden == <<"C", "a", "m", "d", "e", "n">>
TowerHamlets == <<"T", "o", "w", "e", "r", " ", "H", "a", "m", "l", "e", "t", "s">>
Brent == <<"B", "r", "e", "n", "t">>

Row(name, shape) == [name |-> name, geometry |-> Geom(shape, <<>>)]

\* borough_name.replace(" ", "_")
safe_name(borough_name) ==
    [i \in 1..Len(borough_name) |-> IF borough_name[i] = " " THEN "_" ELSE borough_name[i]]

\* The runs of the pipeline that are explored: the boroughs of the boundary
\* file and the months resolved for the run.
Runs ==
    { [step |-> "police", gdf |-> {Row(Camden, "Square")}, months |-> {"2025-01"},
       successes |-> MaxSuccessFull],
      [step |-> "police", gdf |-> {Row(TowerHamlets, "Ell")},
       months |-> {"2025-01"}, successes |-> MaxSuccess],
      [step |-> "police", gdf |-> {Row(Brent, "Comb")},
       months |-> {"2025-01"}, successes |-> MaxSuccess],
      [step |-> "osm", gdf |-> {Row(Camden, "Square"), Row(TowerHamlets, "Ell")},
       months |-> {"2025-01"}, successes |-> MaxSuccess] }

(***************************************************************************)
(* Cache files                                                             *)
(***************************************************************************)
\* label = cell_id if cell_id else "full"
label(cell_id) == IF cell_id = <<>> THEN <<"full">> ELSE cell_id

\* cache_dir / "police" / borough_name.replace(" ", "_") / f"{label}_{month}.json"
cache_path(borough_name, cell_id, month) ==
    <<"police", safe_name(borough_name), label(cell_id), month>>

\* cache_dir / "osm" / f"{safe_name}_parking.json"
parking_path(borough_name) == <<"osm", safe_name(borough_name), <<>>, "parking">>

\* Faulty variant: the cache file is never found.
exists_never(path) == FALSE

exists(path) == path \in DOMAIN cache

\* Faulty variant: the dump of a crime list loses its first record.
json_dump_lossy(value) ==
    IF req.fn = "fetch_borough_month" /\ value # <<>>
    THEN [json |-> Tail(value)]
    ELSE [json |-> value]

json_dump(value) == [json |-> value]

json_load(text) == text.json

\* Faulty variant: the write does not reach the file.
write_file_lost(path, text) == cache

write_file(path, text) ==
    [p \in DOMAIN cache \cup {path} |-> IF p = path THEN text ELSE cache[p]]

(***************************************************************************)
(* Merge of a child's crimes into the parent's accumulator                 *)
(***************************************************************************)
\* Faulty variant: the street id is preferred to the crime id.
uid_street_first(c) == IF c.street # "" THEN c.street ELSE c.id

uid(c) == IF c.id # "" THEN c.id ELSE c.street

identity_key(c) == <<uid(c), c.month>>

\* Faulty variant: the first duplicate ends the loop over a child's crimes.
RECURSIVE merge_crimes_break(_, _, _)
merge_crimes_break(crimes, all_crimes, seen_ids) ==
    IF crimes = <<>> THEN [all_crimes |-> all_crimes, seen_ids |-> seen_ids]
    ELSE LET c == Head(crimes)
             key == <<(IF c.id # "" THEN c.id ELSE c.street), c.month>>
         IN IF key \notin seen_ids
            THEN merge_crimes_break(Tail(crimes), Append(all_crimes, c),
                                    seen_ids \cup {key})
            ELSE [all_crimes |-> all_crimes, seen_ids |-> seen_ids]

RECURSIVE merge_crimes(_, _, _)
merge_crimes(crimes, all_crimes, seen_ids) ==
    IF crimes = <<>> THEN [all_crimes |-> all_crimes, seen_ids |-> seen_ids]
    ELSE LET c == Head(crimes)
             key == identity_key(c)
         IN IF key \notin seen_ids
            THEN merge_crimes(Tail(crimes), Append(all_crimes, c), seen_ids \cup {key})
            ELSE merge_crimes(Tail(crimes), all_crimes, seen_ids)

(***************************************************************************)
(* Frames of _fetch_with_subdivision                                       *)
(***************************************************************************)
Frame(geom, depth, cell_id) ==
    [geom |-> geom, depth |-> depth, cell_id |-> cell_id, at |-> "call",
     resp |-> [status |-> "", body |-> <<>>],
     qi |-> 1, all_crimes |-> <<>>, seen_ids |-> {}, result |-> <<>>]

Top == stack[Len(stack)]

SetTop(f) == [stack EXCEPT ![Len(stack)] = f]

TopPath == cache_path(req.borough, Top.cell_id, req.month)

Get(cell_id) == <<"get", cell_id>>
Sleep(cell_id) == <<"sleep", cell_id>>
Write(cell_id) == <<"write", cell_id>>
Split(cell_id) == <<"split", cell_id>>

Response(status, body) == [status |-> status, body |-> body]

Init ==
    /\ run \in Runs
    /\ cache = <<>>
    /\ stack = <<>>
    /\ pc = "idle"
    /\ req = [fn |-> "", borough |-> <<>>, month |-> ""]
    /\ result = <<>>
    /\ prev = <<>>
    /\ log = <<>>
    /\ budget = run.successes
    /\ sweep = [done |-> 0, all_records |-> <<>>]

\* fetch_borough_month(borough_name, borough_geom, month, cache_dir)
\* What the previous call returned, when it was a call for the same request.
Remember(path) ==
    IF pc = "done" /\ req = req'
    THEN <<[result |-> result, stored |-> exists(path),
            split |-> \E i \in 1..Len(log) : log[i] = Split(<<>>)]>>
    ELSE <<>>

\* fetch_borough_month(borough_name, borough_geom, month, cache_dir)
fetch_borough_month(borough_name, borough_geom, month) ==
    /\ run.step = "police"
    /\ pc \in {"idle", "done", "raised"}
    /\ pc' = "running"
    /\ req' = [fn |-> "fetch_borough_month", borough |-> borough_name, month |-> month]
    /\ stack' = <<Frame(borough_geom, 0, <<>>)>>
    /\ prev' = Remember(cache_path(borough_name, <<>>, month))
    /\ result' = <<>>
    /\ log' = <<>>
    /\ UNCHANGED <<run, cache, budget, sweep>>

Calling == pc = "running" /\ stack # <<>> /\ Top.at = "call"

\* _simplify_to_n_points: geom.exterior of a geometry that is no Polygon
SimplifyRaises ==
    /\ Calling
    /\ ~has_exterior(Top.geom)
    /\ pc' = "raised"
    /\ stack' = <<>>
    /\ UNCHANGED <<run, cache, req, result, prev, log, budget, sweep>>

\* Faulty variant: a cache hit rewrites the file with an empty list.
CacheHit_refresh ==
    /\ pc = "running" /\ stack # <<>> /\ Top.at = "call"
    /\ Top.geom.kind = "Polygon"
    /\ cache_path(req.borough, Top.cell_id, req.month) \in DOMAIN cache
    /\ cache' = [cache EXCEPT ![cache_path(req.borough, Top.cell_id, req.month)] =
                                 [json |-> <<>>]]
    /\ stack' = SetTop([Top EXCEPT !.at = "return",
                                    !.result = cache[cache_path(req.borough, Top.cell_id,
                                                                req.month)].json])
    /\ UNCHANGED <<run, pc, req, result, prev, log, budget, sweep>>

\* _fetch_single_poly: the cache file exists
CacheHit ==
    /\ Calling
    /\ has_exterior(Top.geom)
    /\ exists(TopPath)
    /\ stack' = SetTop([Top EXCEPT !.at = "return", !.result = json_load(cache[TopPath])])
    /\ UNCHANGED <<run, cache, pc, req, result, prev, log, budget, sweep>>

Uncached == Calling /\ has_exterior(Top.geom) /\ ~exists(TopPath)

\* Faulty variant: a request error caches the empty list.
RequestError_cached ==
    /\ pc = "running" /\ stack # <<>> /\ Top.at = "call"
    /\ Top.geom.kind = "Polygon"
    /\ cache_path(req.borough, Top.cell_id, req.month) \notin DOMAIN cache
    /\ log' = log \o <<Get(Top.cell_id), Sleep(Top.cell_id), Write(Top.cell_id)>>
    /\ cache' = write_file(cache_path(req.borough, Top.cell_id, req.month), json_dump(<<>>))
    /\ stack' = SetTop([Top EXCEPT !.at = "return", !.result = <<>>,
                                    !.resp = Response("error", <<>>)])
    /\ UNCHANGED <<run, pc, req, result, prev, budget, sweep>>

\* Faulty variant: a request that raised is sent a second time.
RequestError_again ==
    /\ pc = "running" /\ stack # <<>> /\ Top.at = "call"
    /\ Top.geom.kind = "Polygon"
    /\ cache_path(req.borough, Top.cell_id, req.month) \notin DOMAIN cache
    /\ log' = log \o <<Get(Top.cell_id), Sleep(Top.cell_id),
                       Get(Top.cell_id), Sleep(Top.cell_id)>>
    /\ stack' = SetTop([Top EXCEPT !.at = "return", !.result = <<>>,
                                    !.resp = Response("error", <<>>)])
    /\ UNCHANGED <<run, cache, pc, req, result, prev, budget, sweep>>

\* session.get raises requests.RequestException
RequestError ==
    /\ Uncached
    /\ log' = log \o <<Get(Top.cell_id), Sleep(Top.cell_id)>>
    /\ stack' = SetTop([Top EXCEPT !.at = "return", !.result = <<>>,
                                    !.resp = Response("error", <<>>)])
    /\ UNCHANGED <<run, cache, pc, req, result, prev, budget, sweep>>

\* Faulty variant: no delay after a status that is neither 503 nor 200.
HttpOther_nodelay ==
    /\ pc = "running" /\ stack # <<>> /\ Top.at = "call"
    /\ Top.geom.kind = "Polygon"
    /\ cache_path(req.borough, Top.cell_id, req.month) \notin DOMAIN cache
    /\ log' = log \o <<Get(Top.cell_id)>>
    /\ stack' = SetTop([Top EXCEPT !.at = "return", !.result = <<>>,
                                    !.resp = Response("other", <<>>)])
    /\ UNCHANGED <<run, cache, pc, req, result, prev, budget, sweep>>

\* status is neither 503 nor 200
HttpOther ==
    /\ Uncached
    /\ log' = log \o <<Get(Top.cell_id), Sleep(Top.cell_id)>>
    /\ stack' = SetTop([Top EXCEPT !.at = "return", !.result = <<>>,
                                    !.resp = Response("other", <<>>)])
    /\ UNCHANGED <<run, cache, pc, req, result, prev, budget, sweep>>

\* Faulty variant: the depth test is off by one.
DepthReached_late(depth) == depth > MAX_GRID_DEPTH

\* Faulty variant: the depth test is missing.
DepthReached_never(depth) == FALSE

DepthReached(depth) == depth >= MAX_GRID_DEPTH

\* status 503: None to the caller, which gives up at MAX_GRID_DEPTH or subdivides
Http503 ==
    /\ Uncached
    /\ log' = log \o <<Get(Top.cell_id), Sleep(Top.cell_id)>>
                   \o (IF DepthReached(Top.depth) THEN <<>> ELSE <<Split(Top.cell_id)>>)
    /\ stack' = IF DepthReached(Top.depth)
                THEN SetTop([Top EXCEPT !.at = "return", !.result = <<>>,
                                        !.resp = Response("503", <<>>)])
                ELSE SetTop([Top EXCEPT !.at = "loop", !.qi = 1,
                                        !.all_crimes = <<>>, !.seen_ids = {},
                                        !.resp = Response("503", <<>>)])
    /\ UNCHANGED <<run, cache, pc, req, result, prev, budget, sweep>>

\* status 200: the body is written to the cache file and returned
Http200(crimes) ==
    /\ Uncached
    /\ budget > 0
    /\ budget' = budget - 1
    /\ cache' = write_file(TopPath, json_dump(crimes))
    /\ log' = log \o <<Get(Top.cell_id), Sleep(Top.cell_id), Write(Top.cell_id)>>
    /\ stack' = SetTop([Top EXCEPT !.at = "return", !.result = crimes,
                                    !.resp = Response("200", crimes)])
    /\ UNCHANGED <<run, pc, req, result, prev, sweep>>

Looping == pc = "running" /\ stack # <<>> /\ Top.at = "loop"

\* Faulty variant: the recursive call is made for an empty clip as well.
SkipEmpty_recurse ==
    /\ pc = "running" /\ stack # <<>> /\ Top.at = "loop"
    /\ Top.qi <= Len(suffixes)
    /\ intersection(Top.geom, suffixes[Top.qi]).kind = "Empty"
    /\ stack' = Append(stack, [Frame(intersection(Top.geom, suffixes[Top.qi]),
                                      Top.depth + 1,
                                      Append(Top.cell_id, suffixes[Top.qi]))
                                  EXCEPT !.geom.kind = "Polygon"])
    /\ UNCHANGED <<run, cache, pc, req, result, prev, log, budget, sweep>>

\* clipped.is_empty: continue
SkipEmpty ==
    /\ Looping
    /\ Top.qi <= Len(suffixes)
    /\ is_empty(intersection(Top.geom, suffixes[Top.qi]))
    /\ stack' = SetTop([Top EXCEPT !.qi = @ + 1])
    /\ UNCHANGED <<run, cache, pc, req, result, prev, log, budget, sweep>>

\* Faulty variant: the quadrants are taken from the last to the first.
Recurse_reversed ==
    /\ pc = "running" /\ stack # <<>> /\ Top.at = "loop"
    /\ Top.qi <= Len(suffixes)
    /\ LET suffix == suffixes[Len(suffixes) + 1 - Top.qi]
       IN /\ intersection(Top.geom, suffix).kind # "Empty"
          /\ stack' = Append(stack, Frame(intersection(Top.geom, suffix), Top.depth + 1,
                                          Append(Top.cell_id, suffix)))
    /\ UNCHANGED <<run, cache, pc, req, result, prev, log, budget, sweep>>

\* the recursive call for a quadrant
Recurse ==
    /\ Looping
    /\ Top.qi <= Len(suffixes)
    /\ LET clipped == intersection(Top.geom, suffixes[Top.qi])
           sub_id == Append(Top.cell_id, suffixes[Top.qi])
       IN /\ ~is_empty(clipped)
          /\ stack' = Append(stack, Frame(clipped, Top.depth + 1, sub_id))
    /\ UNCHANGED <<run, cache, pc, req, result, prev, log, budget, sweep>>

\* Faulty variant: the merged list is returned without being written.
CacheMerged_unsaved ==
    /\ pc = "running" /\ stack # <<>> /\ Top.at = "loop"
    /\ Top.qi > Len(suffixes)
    /\ stack' = SetTop([Top EXCEPT !.at = "return", !.result = Top.all_crimes])
    /\ UNCHANGED <<run, cache, pc, req, result, prev, log, budget, sweep>>

\* Faulty variant: a merged list without crimes is not written.
CacheMerged_if_any ==
    /\ pc = "running" /\ stack # <<>> /\ Top.at = "loop"
    /\ Top.qi > Len(suffixes)
    /\ cache' = IF Top.all_crimes = <<>> THEN cache
                ELSE write_file(cache_path(req.borough, Top.cell_id, req.month),
                                json_dump(Top.all_crimes))
    /\ log' = IF Top.all_crimes = <<>> THEN log ELSE log \o <<Write(Top.cell_id)>>
    /\ stack' = SetTop([Top EXCEPT !.at = "return", !.result = Top.all_crimes])
    /\ UNCHANGED <<run, pc, req, result, prev, budget, sweep>>

\* after the loop: the merged list is written under the parent's own path
CacheMerged ==
    /\ Looping
    /\ Top.qi > Len(suffixes)
    /\ cache' = write_file(TopPath, json_dump(Top.all_crimes))
    /\ log' = log \o <<Write(Top.cell_id)>>
    /\ stack' = SetTop([Top EXCEPT !.at = "return", !.result = Top.all_crimes])
    /\ UNCHANGED <<run, pc, req, result, prev, budget, sweep>>

Returning == pc = "running" /\ stack # <<>> /\ Top.at = "return"

\* a recursive call returns into the parent's loop body
ReturnToParent ==
    /\ Returning
    /\ Len(stack) > 1
    /\ LET parent == stack[Len(stack) - 1]
           m == merge_crimes(Top.result, parent.all_crimes, parent.seen_ids)
       IN stack' = [SubSeq(stack, 1, Len(stack) - 1) EXCEPT ![Len(stack) - 1] =
                       [parent EXCEPT !.all_crimes = m.all_crimes,
                                      !.seen_ids = m.seen_ids,
                                      !.qi = @ + 1]]
    /\ UNCHANGED <<run, cache, pc, req, result, prev, log, budget, sweep>>

\* the outermost call returns to fetch_borough_month's caller
ReturnToCaller ==
    /\ Returning
    /\ Len(stack) = 1
    /\ result' = Top.result
    /\ pc' = "done"
    /\ stack' = <<>>
    /\ UNCHANGED <<run, cache, req, prev, log, budget, sweep>>

(***************************************************************************)
(* utils_osm.py: bicycle-parking count of a borough from Overpass          *)
(***************************************************************************)
OVERPASS_ENDPOINTS == <<"overpass-api.de", "overpass.kumi.systems">>

\* A JSON object is a function from its keys to their values; d.get(key) is
\* <<value>> for a key of the object and <<>> (None) for any other key.
get(d, key) == IF key \in DOMAIN d THEN <<d[key]>> ELSE <<>>

\* Coordinates are whole numbers on a grid on which every borough has the
\* bounding box [0, 8] x [0, 8] (x = lon, y = lat).
Coord(lat, lon) == [lat |-> lat, lon |-> lon]

Node(lat, lon) == [type |-> "node", lat |-> lat, lon |-> lon]

Way(center) == [type |-> "way", center |-> center]

\* Elements inside every borough, and one outside every bounding box.
rawFew == [elements |-> << Node(5, 1), Way(Coord(3, 1)), Node(9, 9) >>]

rawNone == [elements |-> <<>>]

\* A response without the key "elements".
rawBare == [version |-> "0.6"]

\* Elements in the bounding box and outside the polygon, on the boundary,
\* of another type, and without coordinates.
rawMixed ==
    [elements |-> << Node(5, 5), Node(5, 2), Node(2, 5), Node(5, 3), Node(3, 0),
                     [type |-> "relation", center |-> Coord(5, 1)],
                     [type |-> "node", lat |-> 5],
                     [type |-> "way"],
                     Way([lon |-> 1]),
                     [type |-> "way", lat |-> 5, lon |-> 1],
                     [lat |-> 5, lon |-> 1] >>]

RawPayloads == {rawFew, rawNone, rawBare, rawMixed}

\* Point(lon, lat)
Point(x, y) == [x |-> x, y |-> y]

\* _element_to_point: <<the point>>, or <<>> for None
element_to_point(elem) ==
    LET etype == get(elem, "type")
        center == IF "center" \in DOMAIN elem THEN elem.center ELSE <<>>
        lat == IF etype = <<"node">> THEN get(elem, "lat") ELSE get(center, "lat")
        lon == IF etype = <<"node">> THEN get(elem, "lon") ELSE get(center, "lon")
    IN IF etype # <<"node">> /\ etype # <<"way">> THEN <<>>
       ELSE IF lat = <<>> \/ lon = <<>> THEN <<>>
       ELSE <<Point(lon[1], lat[1])>>

\* The interior of a borough polygon on the grid: the Square fills its
\* bounding box; the Ell is an arm of width 3 along the west side and an arm
\* of width 2 along the south side; the Comb is the west arm with two fingers
\* to the east.
interior(shape, x, y) ==
    /\ 0 < x /\ x < 8 /\ 0 < y /\ y < 8
    /\ CASE shape = "Square" -> TRUE
         [] shape = "Ell"    -> x < 3 \/ y < 2
         [] shape = "Comb"   -> x < 3 \/ y < 2 \/ (2 < y /\ y < 4)

\* Faulty variant: the point is tested against the bounding box.
contains_bounds(geom, pt) == 0 < pt.x /\ pt.x < 8 /\ 0 < pt.y /\ pt.y < 8

\* borough_geom.contains(pt): the point lies in the interior of the polygon
contains(geom, pt) == interior(geom.shape, pt.x, pt.y)

\* raw.get("elements", [])
elements_of(raw) == IF "elements" \in DOMAIN raw THEN raw.elements ELSE <<>>

\* the loop of fetch_borough_parking over the elements
RECURSIVE count_inside(_, _)
count_inside(elements, borough_geom) ==
    IF elements = <<>> THEN 0
    ELSE LET pt == element_to_point(Head(elements))
         IN (IF pt # <<>> /\ contains(borough_geom, pt[1]) THEN 1 ELSE 0)
               + count_inside(Tail(elements), borough_geom)

Post(endpoint) == <<"post", <<endpoint>>>>
Slept(endpoint) == <<"sleep", <<endpoint>>>>
Saved(borough_name) == <<"write", safe_name(borough_name)>>

fetch_borough_parking(borough_name, borough_geom) ==
    /\ run.step = "osm"
    /\ pc \in {"idle", "done", "raised"}
    /\ pc' = "running"
    /\ req' = [fn |-> "fetch_borough_parking", borough |-> borough_name, month |-> ""]
    /\ stack' = <<[at |-> "parking", i |-> 1, statuses |-> <<>>, geom |-> borough_geom]>>
    /\ prev' = Remember(parking_path(borough_name))
    /\ result' = <<>>
    /\ log' = <<>>
    /\ UNCHANGED <<run, cache, budget, sweep>>

Parking == pc = "running" /\ stack # <<>> /\ Top.at = "parking"

\* the cache file exists: count from the cached raw response
ParkingCached ==
    /\ Parking
    /\ exists(parking_path(req.borough))
    /\ result' = count_inside(elements_of(json_load(cache[parking_path(req.borough)])),
                              Top.geom)
    /\ pc' = "done"
    /\ stack' = <<>>
    /\ UNCHANGED <<run, cache, req, prev, log, budget, sweep>>

\* no cache file: _query_overpass starts with the first endpoint
ParkingMiss ==
    /\ Parking
    /\ ~exists(parking_path(req.borough))
    /\ stack' = SetTop([Top EXCEPT !.at = "post", !.i = 1])
    /\ UNCHANGED <<run, cache, pc, req, result, prev, log, budget, sweep>>

Posting == pc = "running" /\ stack # <<>> /\ Top.at = "post"

\* endpoint i answers 200: its body is returned, cached and counted
Post200(raw) ==
    /\ Posting
    /\ Top.i <= Len(OVERPASS_ENDPOINTS)
    /\ budget > 0
    /\ budget' = budget - 1
    /\ cache' = write_file(parking_path(req.borough), json_dump(raw))
    /\ log' = log \o <<Post(OVERPASS_ENDPOINTS[Top.i]), Slept(OVERPASS_ENDPOINTS[Top.i]),
                       Saved(req.borough)>>
    /\ result' = count_inside(elements_of(raw), Top.geom)
    /\ pc' = "done"
    /\ stack' = <<>>
    /\ UNCHANGED <<run, req, prev, sweep>>

\* The statuses other than 200 an endpoint may answer: 503 is the status
\* utils_police.py reads as "area too large"; _query_overpass tells no status
\* other than 200 apart.
FailureStatuses == {"503", "other"}

\* Faulty variant: a status other than 200 ends the loop over the endpoints.
PostStatus_giveup(status) ==
    /\ pc = "running" /\ stack # <<>> /\ Top.at = "post"
    /\ Top.i <= Len(OVERPASS_ENDPOINTS)
    /\ log' = log \o <<Post(OVERPASS_ENDPOINTS[Top.i]), Slept(OVERPASS_ENDPOINTS[Top.i])>>
    /\ stack' = SetTop([Top EXCEPT !.i = Len(OVERPASS_ENDPOINTS) + 1,
                                    !.statuses = Append(@, status)])
    /\ UNCHANGED <<run, cache, pc, req, result, prev, budget, sweep>>

\* endpoint i answers a status other than 200: the next endpoint is tried
PostStatus(status) ==
    /\ Posting
    /\ Top.i <= Len(OVERPASS_ENDPOINTS)
    /\ log' = log \o <<Post(OVERPASS_ENDPOINTS[Top.i]), Slept(OVERPASS_ENDPOINTS[Top.i])>>
    /\ stack' = SetTop([Top EXCEPT !.i = @ + 1, !.statuses = Append(@, status)])
    /\ UNCHANGED <<run, cache, pc, req, result, prev, budget, sweep>>

\* session.post raises requests.RequestException: the next endpoint is tried
PostError ==
    /\ Posting
    /\ Top.i <= Len(OVERPASS_ENDPOINTS)
    /\ log' = log \o <<Post(OVERPASS_ENDPOINTS[Top.i]), Slept(OVERPASS_ENDPOINTS[Top.i])>>
    /\ stack' = SetTop([Top EXCEPT !.i = @ + 1, !.statuses = Append(@, "error")])
    /\ UNCHANGED <<run, cache, pc, req, result, prev, budget, sweep>>

\* every endpoint failed: _query_overpass returns None and the count is 0
AllFailed ==
    /\ Posting
    /\ Top.i > Len(OVERPASS_ENDPOINTS)
    /\ result' = 0
    /\ pc' = "done"
    /\ stack' = <<>>
    /\ UNCHANGED <<run, cache, req, prev, log, budget, sweep>>

Next ==
    \/ \E row \in run.gdf, month \in run.months :
          fetch_borough_month(row.name, row.geometry, month)
    \/ SimplifyRaises
    \/ CacheHit
    \/ RequestError
    \/ HttpOther
    \/ Http503
    \/ \E crimes \in Payloads : Http200(crimes)
    \/ SkipEmpty
    \/ Recurse
    \/ CacheMerged
    \/ ReturnToParent
    \/ ReturnToCaller
    \/ \E row \in run.gdf : fetch_borough_parking(row.name, row.geometry)
    \/ ParkingCached
    \/ ParkingMiss
    \/ \E raw \in RawPayloads : Post200(raw)
    \/ \E status \in FailureStatuses : PostStatus(status)
    \/ PostError
    \/ AllFailed

Spec == Init /\ [][Next]_vars

(***************************************************************************)
(* One call of fetch_borough_month on its own, over the cache directory as *)
(* earlier calls left it.  The call runs in one thread: a step that can be *)
(* taken is taken.                                                         *)
(***************************************************************************)
CallRuns == {r \in Runs : r.step = "police"}

\* nothing cached, or the NW quadrant of Tower Hamlets
CallCaches(r) ==
    IF Row(TowerHamlets, "Ell") \in r.gdf
    THEN { <<>>,
           [p \in {cache_path(TowerHamlets, <<"NW">>, "2025-01")} |-> json_dump(<<crimeA>>)] }
    ELSE { <<>> }

CallInit ==
    /\ run \in CallRuns
    /\ cache \in CallCaches(run)
    /\ stack = <<>>
    /\ pc = "idle"
    /\ req = [fn |-> "", borough |-> <<>>, month |-> ""]
    /\ result = <<>>
    /\ prev = <<>>
    /\ log = <<>>
    /\ budget = run.successes
    /\ sweep = [done |-> 0, all_records |-> <<>>]

\* The bodies a 200 response carries in these calls.
CallPayloads == { <<crimeA>> }

CallNext ==
    \/ /\ pc = "idle"
       /\ \E row \in run.gdf, month \in run.months :
             fetch_borough_month(row.name, row.geometry, month)
    \/ SimplifyRaises
    \/ CacheHit
    \/ RequestError
    \/ HttpOther
    \/ Http503
    \/ \E crimes \in CallPayloads : Http200(crimes)
    \/ SkipEmpty
    \/ Recurse
    \/ CacheMerged
    \/ ReturnToParent
    \/ ReturnToCaller

SpecCall == CallInit /\ [][CallNext]_vars /\ WF_vars(CallNext)

(***************************************************************************)
(* The same program over a boundary file with two rows whose names differ  *)
(* in a space and an underscore only.                                      *)
(***************************************************************************)
Tower_Hamlets == <<"T", "o", "w", "e", "r", "_", "H", "a", "m", "l", "e", "t", "s">>

AlikeRuns ==
    { [step |-> step, gdf |-> {Row(TowerHamlets, "Ell"), Row(Tower_Hamlets, "Comb")},
       months |-> {"2025-01"}, successes |-> MaxSuccess] : step \in {"police", "osm"} }

AlikeInit ==
    /\ run \in AlikeRuns
    /\ cache = <<>>
    /\ stack = <<>>
    /\ pc = "idle"
    /\ req = [fn |-> "", borough |-> <<>>, month |-> ""]
    /\ result = <<>>
    /\ prev = <<>>
    /\ log = <<>>
    /\ budget = run.successes
    /\ sweep = [done |-> 0, all_records |-> <<>>]

SpecAlike == AlikeInit /\ [][Next]_vars

(***************************************************************************)
(* The merge loop of _fetch_with_subdivision on its own: the lists the     *)
(* four recursive calls return are drawn at the start, and the loop body   *)
(* folds them into all_crimes in the order NW, NE, SW, SE.                 *)
(***************************************************************************)
crimeA2 == Crime("c1", "s2", "2025-01", "51.59")
crimeD == Crime("s1", "s9", "2025-01", "51.53")
crimeE == Crime("", "", "", "51.54")
crimeF == Crime("c1", "s1", "2025-02", "51.55")

ChildLists ==
    { <<>>, <<crimeA>>, <<crimeC>>, <<crimeA2, crimeB>>, <<crimeB, crimeC>>,
      <<crimeD, crimeE>>, <<crimeE, crimeF, crimeA>> }

MergeRuns ==
    { [step |-> "merge", gdf |-> {}, months |-> {}, successes |-> 0, children |-> cs] :
        cs \in [1..Len(suffixes) -> ChildLists] }

MergeInit ==
    /\ run \in MergeRuns
    /\ cache = <<>>
    /\ stack = <<[Frame(Geom("Square", <<>>), 0, <<>>) EXCEPT !.at = "loop"]>>
    /\ pc = "running"
    /\ req = [fn |-> "_fetch_with_subdivision", borough |-> Camden, month |-> "2025-01"]
    /\ result = <<>>
    /\ prev = <<>>
    /\ log = <<>>
    /\ budget = 0
    /\ sweep = [done |-> 0, all_records |-> <<>>]

\* the loop body for one quadrant, given the list its recursive call returned
MergeChild ==
    /\ Looping
    /\ Top.qi <= Len(suffixes)
    /\ LET m == merge_crimes(run.children[Top.qi], Top.all_crimes, Top.seen_ids)
       IN stack' = SetTop([Top EXCEPT !.all_crimes = m.all_crimes,
                                      !.seen_ids = m.seen_ids,
                                      !.qi = @ + 1])
    /\ UNCHANGED <<run, cache, pc, req, result, prev, log, budget, sweep>>

\* return all_crimes
MergeReturn ==
    /\ Looping
    /\ Top.qi > Len(suffixes)
    /\ result' = Top.all_crimes
    /\ pc' = "done"
    /\ stack' = <<>>
    /\ UNCHANGED <<run, cache, req, prev, log, budget, sweep>>

MergeNext == MergeChild \/ MergeReturn

SpecMerge == MergeInit /\ [][MergeNext]_vars

(***************************************************************************)
(* build_dataset.py: fetch_all_crimes, the sweep over every borough of the *)
(* boundary file and every month, one call of fetch_borough_month after    *)
(* the other.  The cache directory may hold files of an earlier run.  An   *)
(* exception raised inside a call is caught nowhere (neither in            *)
(* fetch_all_crimes nor in main), so it ends the sweep.                    *)
(***************************************************************************)
SweepRuns ==
    { [step |-> "sweep", gdf |-> rows, months |-> <<"2025-01">>,
       successes |-> MaxSuccessSweep] :
        rows \in { <<Row(TowerHamlets, "Ell"), Row(Brent, "Comb")>>,
                   <<Row(Brent, "Comb"), Row(TowerHamlets, "Ell")>> } }

EarlierCaches ==
    { <<>>,
      [p \in {cache_path(TowerHamlets, <<>>, "2025-01")} |-> json_dump(<<crimeA>>)] }

SweepInit ==
    /\ run \in SweepRuns
    /\ cache \in EarlierCaches
    /\ stack = <<>>
    /\ pc = "idle"
    /\ req = [fn |-> "", borough |-> <<>>, month |-> ""]
    /\ result = <<>>
    /\ prev = <<>>
    /\ log = <<>>
    /\ budget = run.successes
    /\ sweep = [done |-> 0, all_records |-> <<>>]

total_combos == Len(run.gdf) * Len(run.months)

\* parse_crimes_to_records: one record per crime (area, month, crime id)
parse_crimes_to_records(crimes, borough_name, month) ==
    [i \in 1..Len(crimes) |->
        [area_name |-> borough_name, month |-> month, crime_id |-> crimes[i].id]]

\* the loop body up to the call of fetch_borough_month for the next cell
fetch_all_crimes_call ==
    /\ run.step = "sweep"
    /\ pc = "idle"
    /\ sweep.done < total_combos
    /\ LET row == run.gdf[(sweep.done \div Len(run.months)) + 1]
           month == run.months[(sweep.done % Len(run.months)) + 1]
       IN /\ req' = [fn |-> "fetch_borough_month", borough |-> row.name, month |-> month]
          /\ stack' = <<Frame(row.geometry, 0, <<>>)>>
    /\ sweep' = [sweep EXCEPT !.done = @ + 1]
    /\ pc' = "running"
    /\ result' = <<>>
    /\ log' = <<>>
    /\ UNCHANGED <<run, cache, prev, budget>>

\* the call returned: all_records.extend(records)
fetch_all_crimes_extend ==
    /\ run.step = "sweep"
    /\ pc = "done"
    /\ req.fn = "fetch_borough_month"
    /\ sweep' = [sweep EXCEPT !.all_records =
                     @ \o parse_crimes_to_records(result, req.borough, req.month)]
    /\ pc' = "idle"
    /\ UNCHANGED <<run, cache, stack, req, result, prev, log, budget>>

\* both loops are through: fetch_all_crimes returns
fetch_all_crimes_return ==
    /\ run.step = "sweep"
    /\ pc = "idle"
    /\ sweep.done = total_combos
    /\ pc' = "returned"
    /\ UNCHANGED <<run, cache, stack, req, result, prev, log, budget, sweep>>

SweepNext ==
    \/ fetch_all_crimes_call
    \/ fetch_all_crimes_extend
    \/ fetch_all_crimes_return
    \/ SimplifyRaises
    \/ CacheHit
    \/ RequestError
    \/ HttpOther
    \/ Http503
    \/ \E crimes \in Payloads : Http200(crimes)
    \/ SkipEmpty
    \/ Recurse
    \/ CacheMerged
    \/ ReturnToParent
    \/ ReturnToCaller

\* The pipeline is one sequential process: a step that can be taken is taken.
SpecSweep == SweepInit /\ [][SweepNext]_vars /\ WF_vars(SweepNext)

(***************************************************************************)
(* utils_police.py: _simplify_to_n_points on its own.  A ring is the       *)
(* sequence of its coordinates, the first one repeated at the end.  What   *)
(* geom.simplify (shapely) returns depends on the polygon: a polygon is    *)
(* described by the length of its exterior ring, by how many coordinates   *)
(* each doubling of the tolerance removes, and by the length below which   *)
(* the topology-preserving simplification cannot bring the ring.  The      *)
(* tolerance is counted in units of 0.0001.                                *)
(***************************************************************************)
MAX_POLY_POINTS == 25

SimplifyAttempts == 30

InitialTolerance == 1

Ring(n) == [i \in 1..n |-> IF i = n THEN 1 ELSE i]

Polygon(n, floor, step) == [n |-> n, floor |-> floor, step |-> step]

exterior_coords(geom) == Ring(geom.n)

RECURSIVE Doublings(_)
Doublings(tolerance) == IF tolerance <= 1 THEN 0 ELSE 1 + Doublings(tolerance \div 2)

Max(a, b) == IF a >= b THEN a ELSE b

\* geom.simplify(tolerance, preserve_topology=True)
simplify(geom, tolerance) ==
    [geom EXCEPT !.n = Max(geom.floor, geom.n - geom.step * (Doublings(tolerance) + 1))]

\* coords[:-1]
all_but_last(coords) == SubSeq(coords, 1, Len(coords) - 1)

SimplifyRuns ==
    { [step |-> "simplify", gdf |-> {}, months |-> {}, successes |-> 0,
       geom |-> Polygon(n, floor, step)] :
        n \in {4, 25, 26, 27, 40}, floor \in {4, 26, 27}, step \in {1, 5} }

SimplifyInit ==
    /\ run \in SimplifyRuns
    /\ run.geom.floor <= run.geom.n
    /\ cache = <<>>
    /\ stack = <<[at |-> "call", geom |-> run.geom, max_points |-> MAX_POLY_POINTS,
                  tolerance |-> 0, simplified |-> run.geom, attempts |-> 0]>>
    /\ pc = "running"
    /\ req = [fn |-> "_simplify_to_n_points", borough |-> <<>>, month |-> ""]
    /\ result = <<>>
    /\ prev = <<>>
    /\ log = <<>>
    /\ budget = 0
    /\ sweep = [done |-> 0, all_records |-> <<>>]

Simplifying == pc = "running" /\ stack # <<>> /\ req.fn = "_simplify_to_n_points"

\* len(coords) <= max_points: return coords[:-1]
SimplifyFits ==
    /\ Simplifying /\ Top.at = "call"
    /\ Len(exterior_coords(Top.geom)) <= Top.max_points
    /\ result' = all_but_last(exterior_coords(Top.geom))
    /\ pc' = "done"
    /\ stack' = <<>>
    /\ UNCHANGED <<run, cache, req, prev, log, budget, sweep>>

\* tolerance = 0.0001; simplified = geom
SimplifyStart ==
    /\ Simplifying /\ Top.at = "call"
    /\ Len(exterior_coords(Top.geom)) > Top.max_points
    /\ stack' = SetTop([Top EXCEPT !.at = "loop", !.tolerance = InitialTolerance,
                                    !.simplified = Top.geom, !.attempts = 0])
    /\ UNCHANGED <<run, cache, pc, req, result, prev, log, budget, sweep>>

\* Faulty variant: the tolerance is not doubled after a failed attempt.
SimplifyAttempt_flat ==
    /\ pc = "running" /\ stack # <<>> /\ req.fn = "_simplify_to_n_points"
    /\ Top.at = "loop"
    /\ Top.attempts < SimplifyAttempts
    /\ stack' = IF Len(exterior_coords(simplify(Top.geom, Top.tolerance))) <= Top.max_points
                THEN SetTop([Top EXCEPT !.at = "after",
                                        !.simplified = simplify(Top.geom, Top.tolerance),
                                        !.attempts = @ + 1])
                ELSE SetTop([Top EXCEPT !.simplified = simplify(Top.geom, Top.tolerance),
                                        !.attempts = @ + 1])
    /\ UNCHANGED <<run, cache, pc, req, result, prev, log, budget, sweep>>

\* one pass of the loop body: simplify, break when n <= max_points, else
\* double the tolerance
SimplifyAttempt ==
    /\ Simplifying /\ Top.at = "loop"
    /\ Top.attempts < SimplifyAttempts
    /\ LET simplified == simplify(Top.geom, Top.tolerance)
           n == Len(exterior_coords(simplified))
       IN stack' = IF n <= Top.max_points
                   THEN SetTop([Top EXCEPT !.at = "after", !.simplified = simplified,
                                           !.attempts = @ + 1])
                   ELSE SetTop([Top EXCEPT !.simplified = simplified,
                                           !.tolerance = @ * 2,
                                           !.attempts = @ + 1])
    /\ UNCHANGED <<run, cache, pc, req, result, prev, log, budget, sweep>>

\* range(30) is used up
SimplifyExhausted ==
    /\ Simplifying /\ Top.at = "loop"
    /\ Top.attempts >= SimplifyAttempts
    /\ stack' = SetTop([Top EXCEPT !.at = "after"])
    /\ UNCHANGED <<run, cache, pc, req, result, prev, log, budget, sweep>>

\* return list(simplified.exterior.coords)[:-1]
SimplifyReturn ==
    /\ Simplifying /\ Top.at = "after"
    /\ result' = all_but_last(exterior_coords(Top.simplified))
    /\ pc' = "done"
    /\ stack' = <<>>
    /\ UNCHANGED <<run, cache, req, prev, log, budget, sweep>>

SimplifyNext ==
    \/ SimplifyFits
    \/ SimplifyStart
    \/ SimplifyAttempt
    \/ SimplifyExhausted
    \/ SimplifyReturn

SpecSimplify == SimplifyInit /\ [][SimplifyNext]_vars

\* The call runs in one thread: a step that can be taken is taken.
SpecSimplifyFair == SpecSimplify /\ WF_vars(SimplifyNext)

(***************************************************************************)
(* utils_police.py: from the exterior ring of a region to the request, the *)
(* first lines of _fetch_with_subdivision for a region that has no cache   *)
(* file.  A coordinate is an integer number of 1e-7 degrees; a ring is a   *)
(* sequence of <<lng, lat>> pairs, the first repeated at the end, and the  *)
(* ring of an empty polygon is the empty sequence.  A string is the        *)
(* sequence of its pieces.                                                 *)
(***************************************************************************)
Lngs == {-1234567, 15}

Lats == {515000004, 515000005, 516000000}

Points == {<<lng, lat>> : lng \in Lngs, lat \in Lats}

EncodeRings ==
    {<<>>} \cup {<<a, b, c, a>> : a, b, c \in Points}

\* f"{x:.6f}": x rounded to a whole number of 1e-6 degrees
format_6f(x) == <<"%.6f", (x + 5) \div 10>>

\* sep.join(items)
RECURSIVE join(_, _)
join(sep, items) ==
    IF items = <<>> THEN <<>>
    ELSE IF Len(items) = 1 THEN items[1]
    ELSE items[1] \o <<sep>> \o join(sep, Tail(items))

\* ":".join(f"{lat:.6f},{lng:.6f}" for lng, lat in coords)
coords_to_api_string(coords) ==
    join(<<":">>, [i \in 1..Len(coords) |->
                      <<format_6f(coords[i][2]), <<",">>, format_6f(coords[i][1])>>])

Request(poly_str, month) == <<"get", [poly |-> poly_str, date |-> month]>>

EncodeInit ==
    /\ run \in { [step |-> "encode", gdf |-> {}, months |-> {"2025-01"}, successes |-> 0,
                   exterior |-> ring] : ring \in EncodeRings }
    /\ \A i, j \in 1..(Len(run.exterior) - 1) : run.exterior[i] = run.exterior[j] => i = j
    /\ cache = <<>>
    /\ stack = <<[at |-> "call", exterior |-> run.exterior, coords |-> <<>>,
                  poly_str |-> <<>>]>>
    /\ pc = "running"
    /\ req = [fn |-> "_fetch_with_subdivision", borough |-> Camden, month |-> "2025-01"]
    /\ result = <<>>
    /\ prev = <<>>
    /\ log = <<>>
    /\ budget = 0
    /\ sweep = [done |-> 0, all_records |-> <<>>]

Encoding == pc = "running" /\ stack # <<>> /\ run.step = "encode"

\* coords = _simplify_to_n_points(geom), for a ring within the budget
EncodeSimplify ==
    /\ Encoding /\ Top.at = "call"
    /\ Len(Top.exterior) <= MAX_POLY_POINTS
    /\ stack' = SetTop([Top EXCEPT !.at = "simplified",
                                    !.coords = all_but_last(Top.exterior)])
    /\ UNCHANGED <<run, cache, pc, req, result, prev, log, budget, sweep>>

\* poly_str = _coords_to_api_string(coords)
EncodeString ==
    /\ Encoding /\ Top.at = "simplified"
    /\ stack' = SetTop([Top EXCEPT !.at = "encoded",
                                    !.poly_str = coords_to_api_string(Top.coords)])
    /\ UNCHANGED <<run, cache, pc, req, result, prev, log, budget, sweep>>

\* _fetch_single_poly without cache file: session.get(url, params=params)
EncodeGet ==
    /\ Encoding /\ Top.at = "encoded"
    /\ ~exists(cache_path(req.borough, <<>>, req.month))
    /\ log' = log \o <<Request(Top.poly_str, req.month)>>
    /\ stack' = SetTop([Top EXCEPT !.at = "requested"])
    /\ UNCHANGED <<run, cache, pc, req, result, prev, budget, sweep>>

EncodeNext == EncodeSimplify \/ EncodeString \/ EncodeGet

SpecEncode == EncodeInit /\ [][EncodeNext]_vars

(***************************************************************************)
(* build_dataset.py: main.  The command line gives --dry-run and --no-osm; *)
(* the boundary file is read (sorted by gss_code), the months are resolved *)
(* from the Police API, and unless the run is a dry run the crimes are     *)
(* fetched (fetch_all_crimes), the exposure is fetched (fetch_exposure)    *)
(* and the panel is built and exported.                                    *)
(***************************************************************************)
\* The months of the calendar the runs take place in; the API publishes a
\* month two months later.
Calendar == <<"2024-11", "2024-12", "2025-01", "2025-02", "2025-03">>

\* gdf["gss_code"] of a row
gss_code(row) ==
    CASE row.name = Brent        -> "E09000005"
      [] row.name = Camden       -> "E09000007"
      [] row.name = TowerHamlets -> "E09000030"

\* available[-n_months:]
last_months(available, n_months) ==
    IF n_months = 0 \/ n_months >= Len(available) THEN available
    ELSE SubSeq(available, Len(available) - n_months + 1, Len(available))

\* the fallback list of resolve_months: the n_months months up to the month
\* two months before today
fallback_months(today, n_months) ==
    [i \in 1..n_months |-> Calendar[today - 2 - n_months + i]]

\* resolve_months, given what get_available_months returned
resolve_months(available, today, n_months) ==
    IF available = <<>> THEN fallback_months(today, n_months)
    ELSE last_months(available, n_months)

\* The cache directory as earlier runs left it.
MainCaches ==
    { <<>>,
      [p \in {cache_path(TowerHamlets, <<>>, "2025-01"), parking_path(TowerHamlets)} |->
          IF p = parking_path(TowerHamlets) THEN json_dump(rawMixed)
          ELSE json_dump(<<crimeA>>)],
      [p \in {parking_path(Brent), parking_path(TowerHamlets)} |->
          IF p = parking_path(Brent) THEN json_dump(rawMixed) ELSE json_dump(rawBare)] }

\* The runs of main: the command line, the boundary file, today's month, and
\* what the API would list as available (<<>>: the API cannot be reached).
MainRuns ==
    { [step |-> "sweep",
       gdf |-> <<Row(Brent, "Comb"), Row(TowerHamlets, "Ell")>>,
       args |-> [dry_run |-> dry_run, no_osm |-> no_osm, months |-> 1],
       today |-> api.today,
       available |-> api.available,
       months |-> resolve_months(api.available, api.today, 1),
       successes |-> MaxSuccessSweep] :
        dry_run \in BOOLEAN, no_osm \in BOOLEAN,
        api \in { [today |-> 5, available |-> SubSeq(Calendar, 1, 3)],
                  [today |-> 4, available |-> <<>>] } }

MainInit ==
    /\ run \in MainRuns
    /\ cache \in MainCaches
    /\ stack = <<>>
    /\ pc = "main"
    /\ req = [fn |-> "", borough |-> <<>>, month |-> ""]
    /\ result = <<>>
    /\ prev = <<>>
    /\ log = <<>>
    /\ budget = run.successes
    /\ sweep = [done |-> 0, all_records |-> <<>>, row |-> 1, results |-> <<>>]

GetDates == <<"get", <<"crimes-street-dates">>>>

\* main, step 2: get_available_months returns the list of the API
get_available_months ==
    /\ pc = "main"
    /\ run.available # <<>>
    /\ log' = Append(log, GetDates)
    /\ pc' = "resolved"
    /\ UNCHANGED <<run, cache, stack, req, result, prev, budget, sweep>>

\* main, step 2: the request fails, get_available_months returns [] and
\* resolve_months builds the fallback list
get_available_months_failed ==
    /\ pc = "main"
    /\ run.available = <<>>
    /\ log' = Append(log, GetDates)
    /\ pc' = "resolved"
    /\ UNCHANGED <<run, cache, stack, req, result, prev, budget, sweep>>

\* if args.dry_run: return
main_dry_run ==
    /\ pc = "resolved"
    /\ run.args.dry_run
    /\ pc' = "exited"
    /\ UNCHANGED <<run, cache, stack, req, result, prev, log, budget, sweep>>

\* main, step 3: fetch_all_crimes is called
main_fetch_all_crimes ==
    /\ pc = "resolved"
    /\ ~run.args.dry_run
    /\ pc' = "idle"
    /\ sweep' = [sweep EXCEPT !.done = 0, !.all_records = <<>>]
    /\ UNCHANGED <<run, cache, stack, req, result, prev, log, budget>>

\* main, step 4: fetch_exposure is called
main_fetch_exposure ==
    /\ pc = "returned"
    /\ "args" \in DOMAIN run
    /\ pc' = IF run.args.no_osm THEN "skip_osm" ELSE "parking"
    /\ sweep' = [sweep EXCEPT !.row = 1, !.results = <<>>]
    /\ req' = [fn |-> "fetch_exposure", borough |-> <<>>, month |-> ""]
    /\ result' = <<>>
    /\ log' = <<>>
    /\ UNCHANGED <<run, cache, stack, prev, budget>>

\* results[key] = count
put(results, key, count) ==
    [k \in DOMAIN results \cup {key} |-> IF k = key THEN count ELSE results[k]]

\* Faulty variant: the point is built from (lat, lon).
elem_to_point_swapped(elem) ==
    LET t == get(elem, "type")
        c == IF "center" \in DOMAIN elem THEN elem.center ELSE <<>>
        lat == IF t = <<"node">> THEN get(elem, "lat") ELSE get(c, "lat")
        lon == IF t = <<"node">> THEN get(elem, "lon") ELSE get(c, "lon")
    IN IF t # <<"node">> /\ t # <<"way">> THEN <<>>
       ELSE IF lat = <<>> \/ lon = <<>> THEN <<>>
       ELSE <<Point(lat[1], lon[1])>>

\* build_dataset._elem_to_point: <<the point>>, or <<>> for None
elem_to_point(elem) ==
    LET t == get(elem, "type")
        c == IF "center" \in DOMAIN elem THEN elem.center ELSE <<>>
        lat == IF t = <<"node">> THEN get(elem, "lat") ELSE get(c, "lat")
        lon == IF t = <<"node">> THEN get(elem, "lon") ELSE get(c, "lon")
    IN IF t # <<"node">> /\ t # <<"way">> THEN <<>>
       ELSE IF lat = <<>> \/ lon = <<>> THEN <<>>
       ELSE <<Point(lon[1], lat[1])>>

\* sum(1 for e in raw.get("elements", []) if ...)
count_cached(raw, geometry) ==
    LET elements == elements_of(raw)
    IN Cardinality({i \in 1..Len(elements) :
                       /\ elem_to_point(elements[i]) # <<>>
                       /\ contains(geometry, elem_to_point(elements[i])[1])})

SkipOsm == pc = "skip_osm" /\ sweep.row <= Len(run.gdf)

\* --no-osm, the cache file of the row exists: count from the cached response
fetch_exposure_cached ==
    /\ SkipOsm
    /\ LET row == run.gdf[sweep.row]
       IN /\ exists(parking_path(row.name))
          /\ sweep' = [sweep EXCEPT
                          !.row = @ + 1,
                          !.results = put(@, gss_code(row),
                                          count_cached(json_load(cache[parking_path(row.name)]),
                                                       row.geometry))]
    /\ UNCHANGED <<run, cache, stack, pc, req, result, prev, log, budget>>

\* --no-osm, no cache file of the row: 0
fetch_exposure_zero ==
    /\ SkipOsm
    /\ LET row == run.gdf[sweep.row]
       IN /\ ~exists(parking_path(row.name))
          /\ sweep' = [sweep EXCEPT !.row = @ + 1,
                                    !.results = put(@, gss_code(row), 0)]
    /\ UNCHANGED <<run, cache, stack, pc, req, result, prev, log, budget>>

\* --no-osm: the loop over the rows is through
fetch_exposure_skipped ==
    /\ pc = "skip_osm"
    /\ sweep.row > Len(run.gdf)
    /\ pc' = "exposed"
    /\ UNCHANGED <<run, cache, stack, req, result, prev, log, budget, sweep>>

\* fetch_all_boroughs_parking: the call of fetch_borough_parking for a row
fetch_all_boroughs_parking_call ==
    /\ pc = "parking"
    /\ sweep.row <= Len(run.gdf)
    /\ LET row == run.gdf[sweep.row]
       IN /\ req' = [fn |-> "fetch_borough_parking", borough |-> row.name, month |-> ""]
          /\ stack' = <<[at |-> "parking", i |-> 1, statuses |-> <<>>,
                         geom |-> row.geometry]>>
    /\ pc' = "running"
    /\ result' = <<>>
    /\ log' = <<>>
    /\ UNCHANGED <<run, cache, prev, budget, sweep>>

\* the call returned: results[name] = count
fetch_all_boroughs_parking_put ==
    /\ "args" \in DOMAIN run
    /\ pc = "done"
    /\ req.fn = "fetch_borough_parking"
    /\ sweep' = [sweep EXCEPT !.row = @ + 1,
                              !.results = put(@, run.gdf[sweep.row].name, result)]
    /\ pc' = "parking"
    /\ UNCHANGED <<run, cache, stack, req, result, prev, log, budget>>

\* the loop is through: fetch_exposure maps the names to their gss_code
fetch_exposure_mapped ==
    /\ pc = "parking"
    /\ sweep.row > Len(run.gdf)
    /\ sweep' = [sweep EXCEPT !.results =
                     [g \in {gss_code(run.gdf[i]) : i \in 1..Len(run.gdf)} |->
                         sweep.results[run.gdf[CHOOSE i \in 1..Len(run.gdf) :
                                                  gss_code(run.gdf[i]) = g].name]]]
    /\ pc' = "exposed"
    /\ UNCHANGED <<run, cache, stack, req, result, prev, log, budget>>

\* main, steps 5 and 6: the panel is built, enriched and exported
main_export ==
    /\ pc = "exposed"
    /\ pc' = "exited"
    /\ UNCHANGED <<run, cache, stack, req, result, prev, log, budget, sweep>>

MainNext ==
    \/ get_available_months
    \/ get_available_months_failed
    \/ main_dry_run
    \/ main_fetch_all_crimes
    \/ fetch_all_crimes_call
    \/ fetch_all_crimes_extend
    \/ fetch_all_crimes_return
    \/ SimplifyRaises
    \/ CacheHit
    \/ RequestError
    \/ HttpOther
    \/ Http503
    \/ \E crimes \in Payloads : Http200(crimes)
    \/ SkipEmpty
    \/ Recurse
    \/ CacheMerged
    \/ ReturnToParent
    \/ ReturnToCaller
    \/ main_fetch_exposure
    \/ fetch_exposure_cached
    \/ fetch_exposure_zero
    \/ fetch_exposure_skipped
    \/ fetch_all_boroughs_parking_call
    \/ ParkingCached
    \/ ParkingMiss
    \/ \E raw \in RawPayloads : Post200(raw)
    \/ \E status \in FailureStatuses : PostStatus(status)
    \/ PostError
    \/ AllFailed
    \/ fetch_all_boroughs_parking_put
    \/ fetch_exposure_mapped
    \/ main_export

SpecMain == MainInit /\ [][MainNext]_vars

(***************************************************************************)
(* utils_alerts.py: add_alert_flags.  The panel is sorted by area and      *)
(* month; a group is the series of risk_index of one area, month by month. *)
(* A risk_index is a whole number, NaN when the exposure is not valid.     *)
(***************************************************************************)
BASELINE_WINDOW == 6

\* min_periods of the rolling baseline
MinPeriods == 3

\* SPIKE_THRESHOLD = 0.50
SPIKE_THRESHOLD == [num |-> 1, den |-> 2]

NaN == -1

isna(x) == x = NaN

RiskIndices == {NaN, 1, 2, 4, 8}

GroupLen == 4

Panels ==
    { <<group>> : group \in [1..GroupLen -> RiskIndices] }
       \cup { << <<1, 2, 4, 8>>, <<4, 4, 4, 8>>, <<8, 4, NaN>> >> }

\* series.shift(k)
shift(series, k) == [i \in 1..Len(series) |-> IF i <= k THEN NaN ELSE series[i - k]]

RECURSIVE sum(_, _)
sum(series, idx) ==
    IF idx = {} THEN 0
    ELSE LET i == CHOOSE j \in idx : TRUE IN series[i] + sum(series, idx \ {i})

\* series.rolling(window, min_periods).mean() at row i: the mean num / den of
\* the values of the window that are not NaN, or NaN
rolling_mean(series, window, min_periods, i) ==
    LET idx == {j \in 1..i : j > i - window /\ ~isna(series[j])}
    IN IF Cardinality(idx) < min_periods THEN [num |-> NaN, den |-> 1]
       ELSE [num |-> sum(series, idx), den |-> Cardinality(idx)]

\* _spike_flag: series > baseline * (1 + threshold); a comparison with NaN
\* is False
spike_flag(series, window, threshold) ==
    [i \in 1..Len(series) |->
        LET baseline == rolling_mean(shift(series, 1), window, MinPeriods, i)
        IN /\ ~isna(series[i])
           /\ ~isna(baseline.num)
           /\ series[i] * baseline.den * threshold.den
                  > baseline.num * (threshold.den + threshold.num)]

\* _trend3_flag: (series > s1) & (s1 > s2)
trend3_flag(series) ==
    LET s1 == shift(series, 1)
        s2 == shift(series, 2)
    IN [i \in 1..Len(series) |->
           /\ ~isna(series[i]) /\ ~isna(s1[i]) /\ ~isna(s2[i])
           /\ series[i] > s1[i]
           /\ s1[i] > s2[i]]

\* int(flag)
int(flag) == IF flag THEN 1 ELSE 0

\* Faulty variant: one flag is enough for a warning.
level_eager(row) ==
    IF int(row.alert_spike) + int(row.alert_trend3) = 0 THEN "none" ELSE "warning"

\* add_alert_flags._level
level(row) ==
    LET n == int(row.alert_spike) + int(row.alert_trend3)
    IN IF n = 0 THEN "none"
       ELSE IF n = 1 THEN "watch"
       ELSE "warning"

AlertsInit ==
    /\ run \in { [step |-> "alerts", panel |-> panel, gdf |-> <<>>, months |-> <<>>,
                   successes |-> 0] : panel \in Panels }
    /\ cache = <<>>
    /\ stack = <<>>
    /\ pc = "groups"
    /\ req = [fn |-> "add_alert_flags", borough |-> <<>>, month |-> ""]
    /\ result = [spike_flags |-> <<>>, trend3_flags |-> <<>>, df |-> <<>>]
    /\ prev = <<>>
    /\ log = <<>>
    /\ budget = 0
    /\ sweep = [done |-> 0, all_records |-> <<>>]

\* the loop body for the next group: its flags are appended
add_alert_flags_group ==
    /\ run.step = "alerts"
    /\ pc = "groups"
    /\ Len(result.spike_flags) < Len(run.panel)
    /\ LET ri == run.panel[Len(result.spike_flags) + 1]
       IN result' = [result EXCEPT
                       !.spike_flags = Append(@, spike_flag(ri, BASELINE_WINDOW,
                                                            SPIKE_THRESHOLD)),
                       !.trend3_flags = Append(@, trend3_flag(ri))]
    /\ UNCHANGED <<run, cache, stack, pc, req, prev, log, budget, sweep>>

RECURSIVE concat(_)
concat(lists) == IF lists = <<>> THEN <<>> ELSE Head(lists) \o concat(Tail(lists))

\* after the loop: the columns alert_spike and alert_trend3 are set
add_alert_flags_columns ==
    /\ run.step = "alerts"
    /\ pc = "groups"
    /\ Len(result.spike_flags) = Len(run.panel)
    /\ LET spike == concat(result.spike_flags)
           trend3 == concat(result.trend3_flags)
           ri == concat(run.panel)
       IN result' = [result EXCEPT !.df =
                        [i \in 1..Len(ri) |->
                            [risk_index |-> ri[i], alert_spike |-> spike[i],
                             alert_trend3 |-> trend3[i], alert_level |-> ""]]]
    /\ sweep' = [sweep EXCEPT !.done = 0]
    /\ pc' = "apply"
    /\ UNCHANGED <<run, cache, stack, req, prev, log, budget>>

\* df.apply(_level, axis=1): the next row
add_alert_flags_level ==
    /\ run.step = "alerts"
    /\ pc = "apply"
    /\ sweep.done < Len(result.df)
    /\ result' = [result EXCEPT !.df[sweep.done + 1].alert_level =
                                     level(result.df[sweep.done + 1])]
    /\ sweep' = [sweep EXCEPT !.done = @ + 1]
    /\ UNCHANGED <<run, cache, stack, pc, req, prev, log, budget>>

\* add_alert_flags returns the enriched panel
add_alert_flags_return ==
    /\ run.step = "alerts"
    /\ pc = "apply"
    /\ sweep.done = Len(result.df)
    /\ pc' = "done"
    /\ UNCHANGED <<run, cache, stack, req, result, prev, log, budget, sweep>>

AlertsNext ==
    \/ add_alert_flags_group
    \/ add_alert_flags_columns
    \/ add_alert_flags_level
    \/ add_alert_flags_return

SpecAlerts == AlertsInit /\ [][AlertsNext]_vars

(***************************************************************************)
(* Reading the log of the current call                                     *)
(***************************************************************************)
Count(event) == Cardinality({i \in 1..Len(log) : log[i] = event})

NetCalls == Cardinality({i \in 1..Len(log) : log[i][1] \in {"get", "post"}})

Delays == Cardinality({i \in 1..Len(log) : log[i][1] = "sleep"})

CacheWrites == Cardinality({i \in 1..Len(log) : log[i][1] = "write"})

IsProperPrefix(s, t) == Len(s) < Len(t) /\ SubSeq(t, 1, Len(s)) = s

\* the queries of the current call for cells that were not subdivided
LeafQueries ==
    Cardinality({i \in 1..Len(log) : log[i][1] = "get" /\ Count(Split(log[i][2])) = 0})

Police == req.fn = "fetch_borough_month"

Osm == req.fn = "fetch_borough_parking"

FramePath(f) == cache_path(req.borough, f.cell_id, req.month)

\* the geometry of the borough of the current request
RequestedGeom == (CHOOSE row \in run.gdf : row.name = req.borough).geometry

Keys(crimes) == {identity_key(crimes[i]) : i \in 1..Len(crimes)}

NoDuplicateKeys(crimes) ==
    \A i, j \in 1..Len(crimes) :
        identity_key(crimes[i]) = identity_key(crimes[j]) => i = j

(***************************************************************************)
(* C1 (as stated): fetching the same request twice in a row returns the    *)
(* same result both times and the second call performs no network call,    *)
(* whatever the endpoint answered.                                         *)
(***************************************************************************)
C1_AlwaysIdempotent ==
    (pc = "done" /\ prev # <<>>) => (result = prev[1].result /\ NetCalls = 0)

\* C1 (amended): when the first of two calls in a row for the same request
\* left a cache entry under the request's own key, the second call returns the
\* same result and performs no network call and no delay.
C1_IdempotentOnceStored ==
    (pc = "done" /\ prev # <<>> /\ prev[1].stored)
        => (result = prev[1].result /\ NetCalls = 0 /\ Delays = 0)

C1_Witness ==
    /\ pc = "done" /\ Police
    /\ prev # <<>> /\ prev[1].stored /\ prev[1].split
    /\ Len(result) > 0

(***************************************************************************)
(* C2: when the cache holds an entry for the key of the call, the call is  *)
(* terminal: it returns the cached payload with no network call, no delay, *)
(* no subdivision and no cache write.                                      *)
(***************************************************************************)
C2_CachedIsTerminal ==
    [][ /\ (Calling /\ FramePath(Top) \in DOMAIN cache)
           => /\ log' = log /\ cache' = cache
              /\ Len(stack') = Len(stack)
              /\ stack'[Len(stack)].at = "return"
              /\ stack'[Len(stack)].result = json_load(cache[FramePath(Top)])
        /\ (Parking /\ parking_path(req.borough) \in DOMAIN cache)
           => /\ log' = log /\ cache' = cache
              /\ pc' = "done"
              /\ result' = count_inside(elements_of(json_load(cache[parking_path(req.borough)])),
                                        Top.geom)
      ]_vars

\* a cell at depth 1 or more answered from its cache file
C2_Witness ==
    /\ Returning /\ Top.depth > 0
    /\ Top.resp.status = ""
    /\ FramePath(Top) \in DOMAIN cache
    /\ Len(Top.result) > 0

(***************************************************************************)
(* C3: a cell below MAX_GRID_DEPTH that was subdivided returns with a      *)
(* cache entry under its own key holding the merged list it returns; and   *)
(* after a call that subdivided the whole region, the next call for the    *)
(* same request returns that list with no query, delay or write at all.    *)
(***************************************************************************)
C3_MergedIsCachedUnderParent ==
    /\ \A i \in 1..Len(stack) :
          (Police /\ stack[i].at = "return" /\ Count(Split(stack[i].cell_id)) > 0)
             => /\ stack[i].depth < MAX_GRID_DEPTH
                /\ FramePath(stack[i]) \in DOMAIN cache
                /\ json_load(cache[FramePath(stack[i])]) = stack[i].result
    /\ (pc = "done" /\ Police /\ prev # <<>> /\ prev[1].split)
          => (result = prev[1].result /\ log = <<>>)

C3_Witness ==
    /\ pc = "done" /\ Police /\ prev # <<>> /\ prev[1].split
    /\ Len(result) = 2

(***************************************************************************)
(* C4: every active frame has depth at most MAX_GRID_DEPTH, and one        *)
(* top-level call issues at most 4^MAX_GRID_DEPTH leaf queries.            *)
(***************************************************************************)
C4_DepthAndLeavesBounded ==
    Police =>
        /\ \A i \in 1..Len(stack) : stack[i].depth <= MAX_GRID_DEPTH
        /\ LeafQueries <= Len(suffixes) ^ MAX_GRID_DEPTH

C4_Witness == Police /\ LeafQueries = Len(suffixes) ^ MAX_GRID_DEPTH

(***************************************************************************)
(* C5: a cell at depth MAX_GRID_DEPTH (or more) whose query is answered    *)
(* 503 returns the empty list and no quadrant of it is queried.            *)
(***************************************************************************)
C5_NoRecursionBeyondDepth ==
    \A i \in 1..Len(stack) :
        (Police /\ stack[i].resp.status = "503" /\ stack[i].depth >= MAX_GRID_DEPTH)
           => /\ i = Len(stack)
              /\ stack[i].at = "return"
              /\ stack[i].result = <<>>
              /\ Count(Split(stack[i].cell_id)) = 0
              /\ \A j \in 1..Len(log) : ~IsProperPrefix(stack[i].cell_id, log[j][2])

C5_Witness ==
    Returning /\ Top.resp.status = "503" /\ Top.depth = MAX_GRID_DEPTH

(***************************************************************************)
(* C6: a query that ends in a network exception or in a status other than  *)
(* 200 and 503 makes the call return the empty list at once, with the      *)
(* cache unchanged, one attempt for the cell and no error raised; when     *)
(* every Overpass endpoint failed the count is 0 and nothing is cached.    *)
(***************************************************************************)
FailedStep ==
    /\ Calling
    /\ Len(stack') = Len(stack)
    /\ stack'[Len(stack)].resp.status \in {"error", "other"}

C6_FailureIsAbsorbed ==
    /\ [][ /\ FailedStep
              => /\ cache' = cache
                 /\ pc' = "running"
                 /\ stack'[Len(stack)].at = "return"
                 /\ stack'[Len(stack)].result = <<>>
           /\ (Posting /\ Top.i > Len(OVERPASS_ENDPOINTS))
              => (cache' = cache /\ log' = log /\ pc' = "done" /\ result' = 0)
         ]_vars
    /\ [](\A i \in 1..Len(stack) :
            (Police /\ stack[i].resp.status \in {"error", "other"})
               => /\ Count(Get(stack[i].cell_id)) = 1
                  /\ FramePath(stack[i]) \notin DOMAIN cache)
    /\ []((Osm /\ pc = "done" /\ NetCalls > 0 /\ CacheWrites = 0)
            => /\ result = 0
               /\ NetCalls = Len(OVERPASS_ENDPOINTS)
               /\ parking_path(req.borough) \notin DOMAIN cache)

C6_Witness ==
    /\ Returning /\ Top.depth = 1
    /\ Top.resp.status = "error"
    /\ Top.result = <<>>

(***************************************************************************)
(* C7: a 200 response to an uncached query is written to the cache once,   *)
(* under the key of the query; what is stored is the body of the response  *)
(* and what is returned is derived from that body.  For Overpass this      *)
(* holds whichever endpoint answered 200.                                  *)
(***************************************************************************)
C7_SuccessIsCachedOnce ==
    /\ \A i \in 1..Len(stack) :
          (Police /\ stack[i].resp.status = "200")
             => /\ Count(Write(stack[i].cell_id)) = 1
                /\ FramePath(stack[i]) \in DOMAIN cache
                /\ cache[FramePath(stack[i])] = json_dump(stack[i].resp.body)
                /\ stack[i].at = "return"
                /\ stack[i].result = stack[i].resp.body
    /\ (Osm /\ pc = "done" /\ NetCalls > 0 /\ parking_path(req.borough) \in DOMAIN cache)
          => /\ CacheWrites = 1
             /\ json_load(cache[parking_path(req.borough)]) \in RawPayloads
             /\ Count(Saved(req.borough)) = 1
             /\ result = count_inside(elements_of(json_load(cache[parking_path(req.borough)])),
                                      RequestedGeom)

\* the fallback endpoint answered 200 after the first endpoint failed
C7_Witness ==
    /\ Osm /\ pc = "done"
    /\ NetCalls = 2 /\ CacheWrites = 1
    /\ result = 2

(***************************************************************************)
(* C8: the merged list holds exactly one record for every identity key     *)
(* that occurs in a child list and nothing else; the record kept for a key *)
(* is the first one met going through the children in the order NW, NE,    *)
(* SW, SE and through each list in order.  The key is (id when truthy,     *)
(* else the street id, else ""; month or "").                              *)
(***************************************************************************)
ClaimedKey(c) ==
    << IF c.id # "" THEN c.id ELSE IF c.street # "" THEN c.street ELSE "",
       IF c.month # "" THEN c.month ELSE "" >>

ChildrenInOrder ==
    run.children[1] \o run.children[2] \o run.children[3] \o run.children[4]

FirstWithKey(crimes, key) ==
    crimes[CHOOSE i \in 1..Len(crimes) :
              /\ ClaimedKey(crimes[i]) = key
              /\ \A j \in 1..(i - 1) : ClaimedKey(crimes[j]) # key]

C8_MergeIsFirstSeenUnion ==
    pc = "done" =>
        /\ {ClaimedKey(result[i]) : i \in 1..Len(result)}
              = {ClaimedKey(ChildrenInOrder[i]) : i \in 1..Len(ChildrenInOrder)}
        /\ \A i, j \in 1..Len(result) :
              ClaimedKey(result[i]) = ClaimedKey(result[j]) => i = j
        /\ \A i \in 1..Len(result) :
              result[i] = FirstWithKey(ChildrenInOrder, ClaimedKey(result[i]))

\* records of three children collapse onto fewer keys
C8_Witness ==
    /\ pc = "done"
    /\ Len(result) = 3
    /\ Len(ChildrenInOrder) >= 6
    /\ \E i \in 1..Len(result) : result[i].id = "" /\ result[i].street # ""

(***************************************************************************)
(* C9: every list a call of _fetch_with_subdivision returns holds no two   *)
(* records with the same identity key.                                     *)
(***************************************************************************)
C9_ReturnsDeduplicated ==
    \A i \in 1..Len(stack) :
        (Police /\ stack[i].at = "return") => NoDuplicateKeys(stack[i].result)

(***************************************************************************)
(* C10: the set of identity keys of the merged list is the same whatever   *)
(* the order in which the child lists are merged, and whether they are     *)
(* merged flat or in two levels.                                           *)
(***************************************************************************)
RECURSIVE MergeAll(_, _, _)
MergeAll(lists, all_crimes, seen_ids) ==
    IF lists = <<>> THEN all_crimes
    ELSE LET m == merge_crimes(Head(lists), all_crimes, seen_ids)
         IN MergeAll(Tail(lists), m.all_crimes, m.seen_ids)

Merged(lists) == MergeAll(lists, <<>>, {})

Records(crimes) == {crimes[i] : i \in 1..Len(crimes)}

C10_KeysIndependentOfOrderAndGrouping ==
    pc = "done" =>
        /\ \A p \in Permutations(1..Len(suffixes)) :
              Keys(Merged([i \in 1..Len(suffixes) |-> run.children[p[i]]])) = Keys(result)
        /\ \A p \in Permutations(1..Len(suffixes)) :
              Keys(Merged(<< Merged(<<run.children[p[1]], run.children[p[2]]>>),
                             Merged(<<run.children[p[3]], run.children[p[4]]>>) >>))
                 = Keys(result)
        /\ \A p \in Permutations(1..Len(suffixes)) :
              Keys(Merged(<< run.children[p[1]],
                             Merged(<<run.children[p[2]], run.children[p[3]],
                                      run.children[p[4]]>>) >>))
                 = Keys(result)

\* another order keeps the same keys with other representatives
C10_Witness ==
    /\ pc = "done"
    /\ \E p \in Permutations(1..Len(suffixes)) :
          Records(Merged([i \in 1..Len(suffixes) |-> run.children[p[i]]])) # Records(result)

(***************************************************************************)
(* C11: within one call the endpoints are posted to in list order, each at *)
(* most once; after an exception or a status other than 200 the loop is at *)
(* the next endpoint; a call that ended after a 200 stored and counted     *)
(* that body and posted to no endpoint after it; a call that ended with no *)
(* 200 posted to every endpoint exactly once and returned 0 (None from     *)
(* _query_overpass).                                                       *)
(***************************************************************************)
IsPost(event) == event[1] = "post"

C11_EndpointsInListOrder ==
    Osm =>
        /\ NetCalls <= Len(OVERPASS_ENDPOINTS)
        /\ SelectSeq(log, IsPost) = [k \in 1..NetCalls |-> Post(OVERPASS_ENDPOINTS[k])]
        /\ Posting => (Top.i = NetCalls + 1 /\ Len(Top.statuses) = NetCalls
                        /\ CacheWrites = 0)
        /\ (pc = "done" /\ NetCalls > 0 /\ CacheWrites > 0)
              => /\ log[Len(log)] = Saved(req.borough)
                 /\ log[Len(log) - 2] = Post(OVERPASS_ENDPOINTS[NetCalls])
                 /\ result = count_inside(elements_of(json_load(cache[parking_path(req.borough)])),
                                          RequestedGeom)
        /\ (pc = "done" /\ NetCalls > 0 /\ CacheWrites = 0)
              => /\ \A k \in 1..Len(OVERPASS_ENDPOINTS) : Count(Post(OVERPASS_ENDPOINTS[k])) = 1
                 /\ result = 0

\* both endpoints failed, each with an exception or a status other than 200
C11_Witness ==
    /\ Osm /\ pc = "done"
    /\ log = <<Post(OVERPASS_ENDPOINTS[1]), Slept(OVERPASS_ENDPOINTS[1]),
               Post(OVERPASS_ENDPOINTS[2]), Slept(OVERPASS_ENDPOINTS[2])>>
    /\ result = 0

(***************************************************************************)
(* C12: in the log of a call every network attempt (session.get or         *)
(* session.post) is directly followed by the delay of that attempt,        *)
(* whatever the attempt ended in; so there are as many delays as attempts  *)
(* and a delay lies between any two attempts.                              *)
(***************************************************************************)
IsAttempt(event) == event[1] \in {"get", "post"}

C13_CapacityExceededEndsTheAttempts ==
    /\ Police =>
          \A i \in 1..Len(stack) :
              stack[i].resp.status = "503"
                 => /\ Count(Get(stack[i].cell_id)) = 1
                    /\ stack[i].depth < MAX_GRID_DEPTH => Count(Split(stack[i].cell_id)) = 1
    /\ (Osm /\ stack # <<>>) =>
          \A k \in 1..Len(Top.statuses) :
              Top.statuses[k] = "503" => k = Len(Top.statuses)

(***************************************************************************)
(* C14: whatever the endpoint answers to the queries, a sweep of           *)
(* fetch_all_crimes eventually returns, having called fetch_borough_month  *)
(* for every (borough, month) cell.                                        *)
(***************************************************************************)
C14_SweepCompletes == <>(pc = "returned" /\ sweep.done = total_combos)

(***************************************************************************)
(* C15 (as stated): a cache entry is created only by a successful fetch of *)
(* its key: every write of a call is the write of a 200 response to the    *)
(* query of that cell, or the write of a merge none of whose sub-queries   *)
(* failed (each queried descendant was itself written).                    *)
(***************************************************************************)
C15_StoredOnlyOnSuccess ==
    Police =>
        \A i \in 1..Len(log) :
            log[i][1] = "write"
               => \/ (i > 2 /\ log[i - 2] = Get(log[i][2]))
                  \/ \A j \in 1..i :
                        (log[j][1] = "get" /\ IsProperPrefix(log[i][2], log[j][2]))
                           => Count(Write(log[j][2])) > 0

\* C15 (amended): no step removes a cache entry or changes its payload; a
\* write goes to a key that has no entry yet (so each key is written at most
\* once); and an entry is created only for the key of the current cell, either
\* from the body of a 200 response to its query or, after its query was
\* answered 503 below MAX_GRID_DEPTH, from the merged list of its quadrants,
\* whatever they returned.
C15_EntriesAreWrittenOnceAndKept ==
    [][ /\ \A path \in DOMAIN cache : path \in DOMAIN cache' /\ cache'[path] = cache[path]
        /\ (Len(log') > Len(log) /\ log'[Len(log')][1] = "write")
              => DOMAIN cache' # DOMAIN cache
        /\ \A path \in DOMAIN cache' \ DOMAIN cache :
              \/ /\ Calling
                 /\ path = FramePath(Top)
                 /\ stack'[Len(stack)].resp.status = "200"
                 /\ cache'[path] = json_dump(stack'[Len(stack)].resp.body)
              \/ /\ Looping
                 /\ path = FramePath(Top)
                 /\ Top.resp.status = "503" /\ Top.depth < MAX_GRID_DEPTH
                 /\ Top.qi > Len(suffixes)
                 /\ cache'[path] = json_dump(Top.all_crimes)
              \/ /\ Posting
                 /\ path = parking_path(req.borough)
                 /\ json_load(cache'[path]) \in RawPayloads
                 /\ pc' = "done"
      ]_vars

\* the region was subdivided; it is written with an empty merged list after
\* a quadrant's query failed, and with no quadrant written
C15_Witness ==
    /\ Returning /\ Police /\ Len(stack) = 1
    /\ Top.resp.status = "503"
    /\ FramePath(Top) \in DOMAIN cache
    /\ json_load(cache[FramePath(Top)]) = <<>>
    /\ NetCalls > 1 /\ CacheWrites = 1

(***************************************************************************)
(* C16: for a cell whose clip of the borough is empty there is no call     *)
(* frame, no query in the log of the call and no cache entry, in any       *)
(* state.                                                                  *)
(***************************************************************************)
\* the cell a cache file of the Police cache is for
CellOf(path) == IF path[3] = <<"full">> THEN <<>> ELSE path[3]

C16_EmptyQuadrantIsSkipped ==
    Police =>
        \A row \in run.gdf :
            LET shape == row.geometry.shape
                dir == safe_name(row.name)
            IN /\ \A path \in DOMAIN cache :
                     path[2] = dir => ~is_empty(Geom(shape, CellOf(path)))
               /\ row.name = req.borough
                     => /\ \A i \in 1..Len(stack) : ~is_empty(Geom(shape, stack[i].cell_id))
                        /\ \A i \in 1..Len(log) : ~is_empty(Geom(shape, log[i][2]))

\* the call subdivided Tower Hamlets, whose NE clip is empty, and its SW
\* quadrant, whose NE clip is empty again, and queried the quadrants after
\* the empty ones
C16_Witness ==
    /\ pc = "done" /\ Police
    /\ req.borough = TowerHamlets
    /\ Count(Split(<<>>)) = 1 /\ Count(Split(<<"SW">>)) = 1
    /\ Count(Get(<<"NW">>)) = 1 /\ Count(Get(<<"NE">>)) = 0
    /\ Count(Get(<<"SW", "NE">>)) = 0 /\ Count(Get(<<"SW", "SW">>)) = 1
    /\ Count(Get(<<"SE">>)) = 1

(***************************************************************************)
(* C17: a record without id that a child returned is never lost by the     *)
(* merge: every such record of the child lists is in the merged list, so   *)
(* no two distinct records without id are collapsed into one.              *)
(***************************************************************************)
C17_KeylessFeaturesAreKept ==
    pc = "done" =>
        \A i \in 1..Len(ChildrenInOrder) :
            ChildrenInOrder[i].id = ""
               => \E j \in 1..Len(result) : result[j] = ChildrenInOrder[i]

(***************************************************************************)
(* C18: the ring _simplify_to_n_points returns never has more than         *)
(* MAX_POLY_POINTS vertices (the closing vertex is not in it), whether the *)
(* input fitted or every attempt of the loop left it too long.             *)
(***************************************************************************)
C18_ReturnsWithinBudget ==
    (pc = "done" /\ req.fn = "_simplify_to_n_points") => Len(result) <= MAX_POLY_POINTS

(***************************************************************************)
(* C19: no string is produced from a ring without vertices, and no request *)
(* is sent whose poly parameter is empty.                                  *)
(***************************************************************************)
C19_EmptyRingIsRejected ==
    Encoding =>
        /\ (Top.at \in {"encoded", "requested"}) => Top.coords # <<>>
        /\ \A i \in 1..Len(log) : log[i][2].poly # <<>>

(***************************************************************************)
(* C20: the count a call of fetch_borough_parking returns is the number of *)
(* elements of the raw response (fetched or cached) that are a node with   *)
(* lat and lon, or a way with a center with lat and lon, and whose point   *)
(* (lon, lat) lies in the interior of the borough polygon.  An element in  *)
(* the bounding box but not in the polygon, on the boundary, of another    *)
(* type or without coordinates is not counted.                             *)
(***************************************************************************)
HasPointInside(elem, shape) ==
    /\ "type" \in DOMAIN elem
    /\ \/ /\ elem.type = "node"
          /\ {"lat", "lon"} \subseteq DOMAIN elem
          /\ interior(shape, elem.lon, elem.lat)
       \/ /\ elem.type = "way"
          /\ "center" \in DOMAIN elem
          /\ {"lat", "lon"} \subseteq DOMAIN elem.center
          /\ interior(shape, elem.center.lon, elem.center.lat)

C20_CountsPointsInsideThePolygon ==
    (Osm /\ pc = "done" /\ parking_path(req.borough) \in DOMAIN cache)
        => LET elements == elements_of(json_load(cache[parking_path(req.borough)]))
           IN result = Cardinality({i \in 1..Len(elements) :
                                       HasPointInside(elements[i], RequestedGeom.shape)})

\* Tower Hamlets with the mixed response: of its elements only the node in
\* the west arm counts
C20_Witness ==
    /\ Osm /\ pc = "done"
    /\ req.borough = TowerHamlets
    /\ parking_path(req.borough) \in DOMAIN cache
    /\ json_load(cache[parking_path(req.borough)]) = rawMixed
    /\ result = 1

(***************************************************************************)
(* C21: within one call of fetch_borough_month the requests are made one   *)
(* at a time by the innermost call (every caller above it waits in its     *)
(* loop over the quadrants, and a request is followed by its delay before  *)
(* anything else happens), and the requests, subdivisions and cache writes *)
(* of the cells under one quadrant all come before the first request of a  *)
(* cell under the next quadrant of the same parent.                        *)
(***************************************************************************)
\* the number of places a cell of the given depth takes in the depth-first
\* order: its request, its delay, its subdivision, its cells, its write
RECURSIVE SubtreeSize(_)
SubtreeSize(depth) ==
    IF depth >= MAX_GRID_DEPTH THEN 3
    ELSE 4 + Len(suffixes) * SubtreeSize(depth + 1)

QuadIndex(suffix) == CHOOSE k \in 1..Len(suffixes) : suffixes[k] = suffix

RECURSIVE FirstPlace(_)
FirstPlace(cell_id) ==
    IF cell_id = <<>> THEN 0
    ELSE LET parent == SubSeq(cell_id, 1, Len(cell_id) - 1)
         IN FirstPlace(parent) + 3
               + (QuadIndex(Last(cell_id)) - 1) * SubtreeSize(Len(cell_id))

\* the place of an event of the log in the depth-first order of the cells
Place(event) ==
    CASE event[1] = "get"   -> FirstPlace(event[2])
      [] event[1] = "sleep" -> FirstPlace(event[2]) + 1
      [] event[1] = "split" -> FirstPlace(event[2]) + 2
      [] event[1] = "write" -> FirstPlace(event[2]) + SubtreeSize(Len(event[2])) - 1

C21_OneQuadrantAtATime ==
    (Police /\ pc \in {"running", "done"}) =>
        /\ \A i \in 1..(Len(log) - 1) : Place(log[i]) < Place(log[i + 1])
        /\ \A i \in 1..Len(log) :
              log[i][1] = "get" => (i < Len(log) /\ log[i + 1] = Sleep(log[i][2]))
        /\ \A i \in 1..(Len(stack) - 1) :
              /\ stack[i].at = "loop"
              /\ stack[i].qi <= Len(suffixes)
              /\ stack[i + 1].cell_id = Append(stack[i].cell_id, suffixes[stack[i].qi])

\* a call that queried a cell under NW and then the next quadrant NE
C21_Witness ==
    /\ Police /\ pc = "done"
    /\ Count(Get(<<"NW", "SE">>)) = 1
    /\ Count(Write(<<"NW">>)) = 1
    /\ Count(Get(<<"NE">>)) = 1

(***************************************************************************)
(* C22: a run of main with --dry-run sends no request: none to the Police  *)
(* API, the list of available months included, and none to Overpass.       *)
(***************************************************************************)
C22_DryRunSendsNoRequest ==
    run.args.dry_run => NetCalls = 0

(***************************************************************************)
(* C23: in the panel add_alert_flags returns, the alert_level of a row is  *)
(* "none" exactly when neither alert_spike nor alert_trend3 is set,        *)
(* "watch" exactly when exactly one of them is set, and "warning" exactly  *)
(* when both are set.                                                      *)
(***************************************************************************)
C23_LevelCountsTheFlags ==
    (req.fn = "add_alert_flags" /\ pc = "done") =>
        \A i \in 1..Len(result.df) :
            LET row == result.df[i]
            IN /\ row.alert_level \in {"none", "watch", "warning"}
               /\ row.alert_level = "none"
                     <=> (~row.alert_spike /\ ~row.alert_trend3)
               /\ row.alert_level = "watch"
                     <=> (row.alert_spike # row.alert_trend3)
               /\ row.alert_level = "warning"
                     <=> (row.alert_spike /\ row.alert_trend3)

\* a panel with a row of each level, the watch once for a trend and once for
\* a spike
C23_Witness ==
    /\ req.fn = "add_alert_flags" /\ pc = "done"
    /\ \E i, j, k, l \in 1..Len(result.df) :
          /\ result.df[i].alert_level = "none"
          /\ result.df[j].alert_level = "watch" /\ result.df[j].alert_trend3
          /\ result.df[k].alert_level = "watch" /\ result.df[k].alert_spike
          /\ result.df[l].alert_level = "warning"

(***************************************************************************)
(* C24: for a ring longer than the budget the loop of                      *)
(* _simplify_to_n_points makes at most 30 attempts, the k-th with the      *)
(* initial tolerance doubled k - 1 times; it stops after the first attempt *)
(* whose ring meets the budget, and after 30 attempts without one it goes  *)
(* on with the ring of the 30th; the call always returns.                  *)
(***************************************************************************)
RECURSIVE Pow2(_)
Pow2(k) == IF k = 0 THEN 1 ELSE 2 * Pow2(k - 1)

\* the ring of the k-th attempt meets the budget
AttemptFits(k) ==
    Len(exterior_coords(simplify(run.geom, InitialTolerance * Pow2(k - 1))))
        <= MAX_POLY_POINTS

SimplifyLoopInvariant ==
    Simplifying =>
        /\ Top.attempts <= SimplifyAttempts
        /\ Top.at = "loop"
              => /\ Top.tolerance = InitialTolerance * Pow2(Top.attempts)
                 /\ \A k \in 1..Top.attempts : ~AttemptFits(k)
        /\ Top.at = "after"
              => /\ Top.attempts >= 1
                 /\ Top.simplified =
                       simplify(run.geom, InitialTolerance * Pow2(Top.attempts - 1))
                 /\ \A k \in 1..(Top.attempts - 1) : ~AttemptFits(k)
                 /\ AttemptFits(Top.attempts) \/ Top.attempts = SimplifyAttempts

C24_BoundedDoublingAttempts ==
    /\ []SimplifyLoopInvariant
    /\ <>(pc = "done")

\* the loop stopped at its fifteenth attempt, the first one that fits
C24_Witness ==
    /\ Simplifying /\ Top.at = "after"
    /\ Top.attempts = 15
    /\ Len(exterior_coords(Top.simplified)) <= MAX_POLY_POINTS

(***************************************************************************)
(* C25: two rows of the boundary file never have the same cache file, and  *)
(* no step of a fetch for one borough and month creates or changes a cache *)
(* file of another borough or of another month.                            *)
(***************************************************************************)
\* the cache file is one of the borough of that name
FileOf(path, borough_name) == path[2] = safe_name(borough_name)

C25_OtherCellsAreLeftAlone ==
    /\ \A r1, r2 \in run.gdf :
          r1 # r2 => /\ cache_path(r1.name, <<>>, "2025-01") # cache_path(r2.name, <<>>, "2025-01")
                     /\ parking_path(r1.name) # parking_path(r2.name)
    /\ [][ \A path \in DOMAIN cache' :
              (\/ \E row \in run.gdf : row.name # req.borough /\ FileOf(path, row.name)
               \/ path[1] = "police" /\ path[4] # req.month)
                 => (path \in DOMAIN cache /\ cache'[path] = cache[path])
         ]_vars

(***************************************************************************)
(* C26: when the loop over the quadrants of a subdivided cell is through,  *)
(* the merged list is written under the cell's own key whatever the calls  *)
(* for the quadrants returned, also when all of them failed; the entry of  *)
(* the whole region never changes afterwards, and every call that finds it *)
(* returns its content without any request, so no quadrant is queried      *)
(* again.                                                                  *)
(***************************************************************************)
RootPath == cache_path(req.borough, <<>>, req.month)

C26_UndercountIsCachedForGood ==
    [][ /\ (Police /\ Looping /\ Top.qi > Len(suffixes))
            => /\ FramePath(Top) \in DOMAIN cache'
               /\ json_load(cache'[FramePath(Top)]) = Top.all_crimes
               /\ log' = Append(log, Write(Top.cell_id))
        /\ (Police /\ RootPath \in DOMAIN cache)
            => /\ RootPath \in DOMAIN cache'
               /\ cache'[RootPath] = cache[RootPath]
               /\ (pc = "running" /\ req' = req) => log' = log
               /\ (pc = "running" /\ pc' = "done")
                     => result' = json_load(cache[RootPath])
      ]_vars

\* the second of two calls: the first one subdivided the region, the call
\* for the NW quadrant failed and left no entry, and the merged list of the
\* other quadrants is returned again without a request
C26_Witness ==
    /\ Police /\ pc = "done"
    /\ prev # <<>> /\ prev[1].split
    /\ cache_path(req.borough, <<"NW">>, req.month) \notin DOMAIN cache
    /\ log = <<>>
    /\ Len(result) > 0
    /\ result = json_load(cache[RootPath])

(***************************************************************************)
(* C27: one call of fetch_borough_month sends at most 1 + 4 + 16 = 21      *)
(* requests, one for each cell of the subdivision tree of depth            *)
(* MAX_GRID_DEPTH and never two for the same cell, and whatever the        *)
(* endpoint answers the call comes to its end.                             *)
(***************************************************************************)
\* the number of cells of the subdivision tree from the given depth down
RECURSIVE TreeCells(_)
TreeCells(depth) ==
    IF depth >= MAX_GRID_DEPTH THEN 1
    ELSE 1 + Len(suffixes) * TreeCells(depth + 1)

RequestsWithinTree ==
    Police =>
        /\ NetCalls <= TreeCells(0)
        /\ Cardinality({log[i] : i \in {j \in 1..Len(log) : log[j][1] = "get"}}) = NetCalls

C27_BoundedRequestsAndTermination ==
    /\ []RequestsWithinTree
    /\ (Police /\ pc = "running") ~> (pc \in {"done", "raised"})

\* a call that queried every cell of the tree
C27_Witness ==
    /\ Police /\ pc = "done"
    /\ NetCalls = TreeCells(0)
    /\ Count(Get(<<"SE", "SE">>)) = 1

(***************************************************************************)
(* C28: whenever no call of fetch_borough_month is running, every cell     *)
(* with a cache entry has its parent cell cached too, up to the entry of   *)
(* the whole region ("full").                                              *)
(***************************************************************************)
\* the cache file of the parent of the cell of a cache file
ParentPath(path) ==
    [path EXCEPT ![3] = label(SubSeq(CellOf(path), 1, Len(CellOf(path)) - 1))]

C28_CachedCellsHaveCachedParents ==
    (pc \in {"idle", "done", "raised"}) =>
        \A path \in DOMAIN cache :
            (path[1] = "police" /\ CellOf(path) # <<>>) => ParentPath(path) \in DOMAIN cache

(***************************************************************************)
(* C29: with --no-osm, the count fetch_exposure stores for a borough whose *)
(* cache file exists is the count fetch_borough_parking computes from that *)
(* file and the borough polygon, the count of a borough without a cache    *)
(* file is 0, and no request is sent; and a call of fetch_borough_parking  *)
(* answered from the cache file returns the count of the --no-osm path.    *)
(***************************************************************************)
\* the rows the loop of the --no-osm path is through with
RowsSkipped == {run.gdf[i] : i \in 1..(sweep.row - 1)}

CountOfParkingCall(row) ==
    count_inside(elements_of(json_load(cache[parking_path(row.name)])), row.geometry)

====
